---- MODULE Spec2Model ----
(***************************************************************************)
(* Hybrid retrieval-augmented chat pipeline (hybrid_chat.py, main.py).     *)
(*                                                                         *)
(* A worker constructs one HybridRAG (OpenAI, Pinecone, Neo4j and Redis    *)
(* clients) and then serves calls: embed_text (the embedding cache         *)
(* gateway) directly, or get_answer, the generator that runs               *)
(* pinecone_query -> fetch_graph_context -> _get_search_summary ->         *)
(* build_prompt_with_summary -> streamed chat completion.                  *)
(*                                                                         *)
(* Every call to an external service is one step whose outcome ("ok" with  *)
(* a result, or the class of the exception raised) is chosen by the        *)
(* environment.  An exception travels up the Python call stack through     *)
(* the except clauses the source has, and nowhere else.                    *)
(*                                                                         *)
(* Spec:          one worker starts and serves get_answer requests in     *)
(*                turn.                                                    *)
(* SpecConc:      two workers start and call embed_text concurrently,      *)
(*                sharing the Pinecone project and the Redis cache.        *)
(* SpecCompose:   one worker builds prompts for callers.                   *)
(* SpecLifecycle: the HTTP application and the interactive loop start, in  *)
(*                any configuration, and shut down.                        *)
(***************************************************************************)
EXTENDS Integers, Sequences, FiniteSets, TLC

\* ------------------------------------------------------------------ bounds
MaxVer == 2        \* distinct vectors the embedding service may answer for one text
MaxMatches == 2    \* longest match list the vector store answers in the model
MaxChunks == 2     \* longest chunk stream the generation service emits in the model
MaxCalls == 2      \* calls (embed_text or get_answer) one worker serves in the model
MaxHistory == 2    \* longest history handed to build_prompt_with_summary directly

\* --------------------------------------------------------- program constants
CacheTTL == 86400      \* setex(cache_key, 86400, ...)
TopK == 5              \* pinecone_query(query, top_k=5)
FactLimit == 20        \* LIMIT 20 of the Cypher query
VectorDim == 3072      \* int(os.getenv("PINECONE_VECTOR_DIM", 3072))

\* ------------------------------------------------------------------ domains
Workers == {"w1", "w2"}
Texts == {"t1", "t2"}
Ids == {"a", "b"}

NoException == "none"

\* os.getenv("PINECONE_INDEX_NAME")
IndexName == "index_name"

\* The float list the embedding service answers for text t (its n-th possible
\* answer); never empty.  The empty list is embed_text's "no embedding" result.
Emb(t, n) == <<t, n>>
EmptyVec == <<>>
Vectors == {Emb(t, n) : t \in Texts, n \in 1..MaxVer}

\* Mutant: the key leaves the text out.
CacheKey_NoText(t) == <<"embedding:", "">>
\* cache_key = f"embedding:{text}"
CacheKey(t) == <<"embedding:", t>>

\* json.dumps(embedding) / json.loads(cached_result)
JsonDumps(v) == [json |-> v]
JsonLoads(s) == s.json

\* `if not vec:` / `if not node_ids:` / `if history:` -- Python truthiness of a list.
Truthy(s) == Len(s) > 0

VARIABLES
  indexes,        \* Pinecone: the indexes that exist, [name, dimension]
  cache,          \* Redis: set of entries [key, value, ttl], one per key at most
  pc,             \* each worker's position in the code
  redis_client,   \* self.redis_client: "unset", "client" or "None"
  ctx,            \* who called embed_text: "direct" or "pipeline"
  text,           \* embed_text's argument
  embedding,      \* embed_text's local `embedding`
  ret,            \* the value embed_text returned
  exc,            \* the exception that left the running call, or "none"
  calls,          \* the external calls of the running call, in order, with outcomes
  served,         \* calls the worker has started
  req,            \* get_answer's arguments and locals, the argument of each call of
                  \* fetch_graph_context, the open Neo4j sessions, and what the
                  \* consumer of the generator has asked for and received
  fresh,          \* history: per text, the vector the latest embed_text call that
                  \* went through the cache returned, until its entry's TTL expires
  neo4j_driver,   \* self.neo4j_driver: "unset", "open" or "closed"
  env             \* the process environment: "complete", or "missing" when a
                  \* credential the clients require is not set

vars == <<indexes, cache, pc, redis_client, ctx, text, embedding, ret, exc, calls, served,
          req, fresh, neo4j_driver, env>>

\* One external call: the service, its outcome ("ok" or the exception class) and
\* a value: the vector an embedding request answered, the names list_indexes
\* answered, the $node_ids parameter of a graph query, the chunks a stream
\* holds, the vector a cache write replaced.
Call(svc, res, val) == [svc |-> svc, res |-> res, val |-> val]
LogVal(p, svc, res, val) == [calls EXCEPT ![p] = Append(@, Call(svc, res, val))]
Log(p, svc, res) == LogVal(p, svc, res, <<>>)

\* Number of calls to service svc in call trace s.
RECURSIVE Count(_, _)
Count(s, svc) ==
  IF s = <<>> THEN 0
  ELSE (IF Head(s).svc = svc THEN 1 ELSE 0) + Count(Tail(s), svc)

\* ------------------------------------------------------------------- Redis
\* Mutant: the lookup never finds the entry.
RedisGet_AlwaysMiss(k) == {}
\* GET key: the stored value, or nothing (None).
RedisGet(k) == {e \in cache : e.key = k}
\* Mutant: SET without expiry.
RedisSetex_NoExpiry(k, ttl, v) ==
  {e \in cache : e.key # k} \cup {[key |-> k, value |-> v, ttl |-> 0]}
\* Mutant: the write adds an entry and leaves the one already stored.
RedisSetex_Append(k, ttl, v) == cache \cup {[key |-> k, value |-> v, ttl |-> ttl]}
\* SETEX key ttl value: replaces whatever was stored under key.
RedisSetex(k, ttl, v) ==
  {e \in cache : e.key # k} \cup {[key |-> k, value |-> v, ttl |-> ttl]}

\* The vector stored under key k, the empty one when there is none.
Stored(k) ==
  IF RedisGet(k) = {} THEN EmptyVec ELSE JsonLoads((CHOOSE e \in RedisGet(k) : TRUE).value)

\* get_answer's frame before any call.
NoRequest ==
  [query |-> "t1", history |-> <<>>, history_in |-> <<>>, matches |-> <<>>, match_ids |-> <<>>,
   graph_facts |-> <<>>, summary |-> "", prompt |-> <<>>, stream |-> <<>>,
   expanded |-> <<>>, sessions |-> 0, pulls |-> 0, out |-> <<>>]

\* self.pinecone_client.list_indexes().names()
ListIndexNames == {i.name : i \in indexes}

Init ==
  /\ indexes \in {{}, {[name |-> IndexName, dimension |-> VectorDim]}}
  /\ cache = {}
  /\ pc = [p \in Workers |-> "new"]
  /\ redis_client = [p \in Workers |-> "unset"]
  /\ ctx = [p \in Workers |-> "direct"]
  /\ text = [p \in Workers |-> "t1"]
  /\ embedding = [p \in Workers |-> EmptyVec]
  /\ ret = [p \in Workers |-> EmptyVec]
  /\ exc = [p \in Workers |-> NoException]
  /\ calls = [p \in Workers |-> <<>>]
  /\ served = [p \in Workers |-> 0]
  /\ req = [p \in Workers |-> NoRequest]
  /\ fresh = [t \in Texts |-> EmptyVec]
  /\ neo4j_driver = [p \in Workers |-> "unset"]
  /\ env = "complete"

\* The state a process may start in: the index may also exist with another
\* dimension than the configured one, and a credential may be missing.
InitStartup ==
  /\ indexes \in {{}, {[name |-> IndexName, dimension |-> VectorDim]},
                   {[name |-> IndexName, dimension |-> VectorDim \div 2]}}
  /\ cache = {}
  /\ pc = [p \in Workers |-> "new"]
  /\ redis_client = [p \in Workers |-> "unset"]
  /\ ctx = [p \in Workers |-> "direct"]
  /\ text = [p \in Workers |-> "t1"]
  /\ embedding = [p \in Workers |-> EmptyVec]
  /\ ret = [p \in Workers |-> EmptyVec]
  /\ exc = [p \in Workers |-> NoException]
  /\ calls = [p \in Workers |-> <<>>]
  /\ served = [p \in Workers |-> 0]
  /\ req = [p \in Workers |-> NoRequest]
  /\ fresh = [t \in Texts |-> EmptyVec]
  /\ neo4j_driver = [p \in Workers |-> "unset"]
  /\ env \in {"complete", "missing"}

\* ------------------------------------------------------ HybridRAG.__init__
\* The except clauses of __init__: ConnectionError of Redis disables caching and
\* construction goes on; every other exception leaves __init__ (re-raised by
\* the second clause, or caught by none).
InitDisablesCache(e) == e = "ConnectionError"

\* __init__ up to _ensure_pinecone_index: the clients are built (no network).
\* OpenAI(api_key=None) and Pinecone(api_key=None) raise when the key is not
\* in the environment either; no except clause of __init__ swallows that.
Construct(p) ==
  /\ pc[p] = "new"
  /\ IF env = "missing"
       THEN /\ pc' = [pc EXCEPT ![p] = "init_failed"]
            /\ exc' = [exc EXCEPT ![p] = "ConfigurationError"]
       ELSE /\ pc' = [pc EXCEPT ![p] = "ensure_list"]
            /\ exc' = exc
  /\ UNCHANGED <<indexes, cache, redis_client, ctx, text, embedding, ret, calls, served, req, fresh, neo4j_driver, env>>

\* _ensure_pinecone_index: `if self.index_name not in list_indexes().names()`
EnsureList(p) ==
  /\ pc[p] = "ensure_list"
  /\ \E res \in {"ok", "PineconeException"} :
       /\ calls' = LogVal(p, "pinecone.list_indexes", res,
                          IF IndexName \in ListIndexNames THEN <<IndexName>> ELSE <<>>)
       /\ IF res = "ok"
            THEN /\ pc' = [pc EXCEPT ![p] =
                        IF IndexName \notin ListIndexNames THEN "ensure_create"
                                                           ELSE "neo4j_verify"]
                 /\ exc' = exc
            ELSE /\ pc' = [pc EXCEPT ![p] = "init_failed"]
                 /\ exc' = [exc EXCEPT ![p] = res]
  /\ UNCHANGED <<indexes, cache, redis_client, ctx, text, embedding, ret, served, req, fresh, neo4j_driver, env>>

\* What create_index answers: the service refuses a name that already exists
\* (409 ALREADY_EXISTS, raised as a PineconeException); it may also fail otherwise.
CreateIndexOutcomes ==
  IF IndexName \notin ListIndexNames THEN {"ok", "PineconeException"}
                                     ELSE {"AlreadyExists"}

\* _ensure_pinecone_index: create_index(name, dimension, metric="cosine", ...)
\* No except clause surrounds it but those of __init__, which re-raise.
EnsureCreate(p) ==
  /\ pc[p] = "ensure_create"
  /\ \E res \in CreateIndexOutcomes :
       /\ calls' = Log(p, "pinecone.create_index", res)
       /\ IF res = "ok"
            THEN /\ indexes' = indexes \cup {[name |-> IndexName, dimension |-> VectorDim]}
                 /\ pc' = [pc EXCEPT ![p] = "neo4j_verify"]
                 /\ exc' = exc
            ELSE /\ indexes' = indexes
                 /\ pc' = [pc EXCEPT ![p] = "init_failed"]
                 /\ exc' = [exc EXCEPT ![p] = res]
  /\ UNCHANGED <<cache, redis_client, ctx, text, embedding, ret, served, req, fresh, neo4j_driver, env>>

\* GraphDatabase.driver(...); self.neo4j_driver.verify_connectivity()
Neo4jVerify(p) ==
  /\ pc[p] = "neo4j_verify"
  /\ \E res \in {"ok", "Neo4jError", "ServiceUnavailable"} :
       /\ calls' = Log(p, "neo4j.verify_connectivity", res)
       /\ neo4j_driver' = [neo4j_driver EXCEPT ![p] = "open"]
       /\ IF res = "ok"
            THEN /\ pc' = [pc EXCEPT ![p] = "redis_ping"]
                 /\ exc' = exc
            ELSE /\ pc' = [pc EXCEPT ![p] = "init_failed"]
                 /\ exc' = [exc EXCEPT ![p] = res]
  /\ UNCHANGED <<indexes, cache, redis_client, ctx, text, embedding, ret, served, req, fresh, env>>

\* redis.Redis(...); self.redis_client.ping()
RedisPing(p) ==
  /\ pc[p] = "redis_ping"
  /\ \E res \in {"ok", "ConnectionError"} :
       /\ calls' = Log(p, "redis.ping", res)
       /\ redis_client' = [redis_client EXCEPT ![p] =
            IF res = "ok" THEN "client"
            ELSE IF InitDisablesCache(res) THEN "None" ELSE @]
       /\ pc' = [pc EXCEPT ![p] =
            IF res = "ok" \/ InitDisablesCache(res) THEN "ready" ELSE "init_failed"]
       /\ exc' = [exc EXCEPT ![p] =
            IF res = "ok" \/ InitDisablesCache(res) THEN @ ELSE res]
  /\ UNCHANGED <<indexes, cache, ctx, text, embedding, ret, served, req, fresh, neo4j_driver, env>>

\* A constructed worker between two calls.
Idle(p) == pc[p] \in {"ready", "returned", "raised", "exhausted", "closed"}

\* ---------------------------------------------------------------- shutdown
\* The methods class HybridRAG defines.
Methods ==
  {"__init__", "_ensure_pinecone_index", "embed_text", "pinecone_query",
   "fetch_graph_context", "_get_search_summary", "build_prompt_with_summary",
   "get_answer"}
\* rag_system.close(): the attribute lookup fails when the class has no such method.
CloseOutcome == IF "close" \in Methods THEN "ok" ELSE "AttributeError"

\* main.py, @app.on_event("shutdown"): rag_system.close(), in no try block.
ShutdownEvent(p) ==
  /\ Idle(p)
  /\ pc' = [pc EXCEPT ![p] = IF CloseOutcome = "ok" THEN "shut_down" ELSE "shutdown_raised"]
  /\ exc' = [exc EXCEPT ![p] = IF CloseOutcome = "ok" THEN NoException ELSE CloseOutcome]
  /\ neo4j_driver' = [neo4j_driver EXCEPT ![p] = IF CloseOutcome = "ok" THEN "closed" ELSE @]
  /\ UNCHANGED <<indexes, cache, redis_client, ctx, text, embedding, ret, calls, served, req, fresh, env>>

\* hybrid_chat.main(): "exit" or "quit" leaves the loop, then rag_system.close();
\* `except Exception` logs what it raises as a critical error and main returns.
MainExit(p) ==
  /\ Idle(p)
  /\ pc' = [pc EXCEPT ![p] = "main_ended"]
  /\ exc' = [exc EXCEPT ![p] = IF CloseOutcome = "ok" THEN NoException ELSE CloseOutcome]
  /\ neo4j_driver' = [neo4j_driver EXCEPT ![p] = IF CloseOutcome = "ok" THEN "closed" ELSE @]
  /\ UNCHANGED <<indexes, cache, redis_client, ctx, text, embedding, ret, calls, served, req, fresh, env>>

\* --------------------------------------------------- HybridRAG.embed_text
\* Mutant: no `except redis.exceptions.RedisError` clause.
EmbedTextCatches_NoRedisClause(e) == e = "APIError"
\* The except clauses of embed_text's try block (it covers the cache read, the
\* first embedding request and the cache write, nothing else).
EmbedTextCatches(e) == e \in {"APIError", "RedisError"}

\* embed_text returns v to its caller.
EtReturn(p, v) ==
  /\ ret' = [ret EXCEPT ![p] = v]
  /\ exc' = exc
  /\ pc' = [pc EXCEPT ![p] = IF ctx[p] = "pipeline" THEN "pq_vec" ELSE "returned"]

\* embed_text returns v, which is what the cache now holds for its text.
EtReturnCached(p, v) ==
  /\ EtReturn(p, v)
  /\ fresh' = [fresh EXCEPT ![text[p]] = v]

\* Exception e leaves embed_text.
EtRaise(p, e) ==
  /\ ret' = ret
  /\ exc' = [exc EXCEPT ![p] = e]
  /\ pc' = [pc EXCEPT ![p] = IF ctx[p] = "pipeline" THEN "pq_except" ELSE "raised"]

\* What the embedding service answers for text t.
EmbeddingOutcomes(t) == {<<"ok", Emb(t, n)>> : n \in 1..MaxVer} \cup {<<"APIError", EmptyVec>>}

\* A caller invokes embed_text(t) on a constructed worker.
EmbedText(p, t) ==
  /\ Idle(p)
  /\ served[p] < MaxCalls
  /\ served' = [served EXCEPT ![p] = @ + 1]
  /\ ctx' = [ctx EXCEPT ![p] = "direct"]
  /\ text' = [text EXCEPT ![p] = t]
  /\ embedding' = [embedding EXCEPT ![p] = EmptyVec]
  /\ ret' = [ret EXCEPT ![p] = EmptyVec]
  /\ exc' = [exc EXCEPT ![p] = NoException]
  /\ calls' = [calls EXCEPT ![p] = <<>>]
  /\ pc' = [pc EXCEPT ![p] = "et_start"]
  /\ UNCHANGED <<indexes, cache, redis_client, req, fresh, neo4j_driver, env>>

\* `if not self.redis_client:`
EtStart(p) ==
  /\ pc[p] = "et_start"
  /\ pc' = [pc EXCEPT ![p] = IF redis_client[p] = "None" THEN "et_direct" ELSE "et_get"]
  /\ UNCHANGED <<indexes, cache, redis_client, ctx, text, embedding, ret, exc, calls, served, req, fresh, neo4j_driver, env>>

\* No cache: resp = embeddings.create(...); return resp.data[0].embedding
\* (outside any try block).
EtDirect(p) ==
  /\ pc[p] = "et_direct"
  /\ \E o \in EmbeddingOutcomes(text[p]) :
       /\ calls' = LogVal(p, "embeddings.create", o[1], o[2])
       /\ IF o[1] = "ok" THEN EtReturn(p, o[2]) ELSE EtRaise(p, o[1])
  /\ UNCHANGED <<indexes, cache, redis_client, ctx, text, embedding, served, req, fresh, neo4j_driver, env>>

\* cached_result = self.redis_client.get(cache_key); hit: return json.loads(...)
EtGet(p) ==
  /\ pc[p] = "et_get"
  /\ \E res \in {"ok", "RedisError"} :
       /\ calls' = Log(p, "redis.get", res)
       /\ IF res = "ok"
            THEN LET cached_result == RedisGet(CacheKey(text[p])) IN
                 IF cached_result # {}
                   THEN \E e \in cached_result : EtReturnCached(p, JsonLoads(e.value))
                   ELSE /\ pc' = [pc EXCEPT ![p] = "et_api"]
                        /\ UNCHANGED <<ret, exc, fresh>>
            ELSE IF EmbedTextCatches(res)
                   THEN /\ pc' = [pc EXCEPT ![p] = "et_fallback"]
                        /\ UNCHANGED <<ret, exc, fresh>>
                   ELSE /\ EtRaise(p, res)
                        /\ fresh' = fresh
  /\ UNCHANGED <<indexes, cache, redis_client, ctx, text, embedding, served, req, neo4j_driver, env>>

\* Miss: resp = embeddings.create(...); embedding = resp.data[0].embedding
\* `except APIError: return []`
EtApi(p) ==
  /\ pc[p] = "et_api"
  /\ \E o \in EmbeddingOutcomes(text[p]) :
       /\ calls' = LogVal(p, "embeddings.create", o[1], o[2])
       /\ IF o[1] = "ok"
            THEN /\ embedding' = [embedding EXCEPT ![p] = o[2]]
                 /\ pc' = [pc EXCEPT ![p] = "et_setex"]
                 /\ UNCHANGED <<ret, exc>>
            ELSE /\ embedding' = embedding
                 /\ IF EmbedTextCatches(o[1]) THEN EtReturn(p, EmptyVec)
                                              ELSE EtRaise(p, o[1])
  /\ UNCHANGED <<indexes, cache, redis_client, ctx, text, served, req, fresh, neo4j_driver, env>>

\* self.redis_client.setex(cache_key, 86400, json.dumps(embedding)); return embedding
EtSetex(p) ==
  /\ pc[p] = "et_setex"
  /\ \E res \in {"ok", "RedisError"} :
       /\ calls' = LogVal(p, "redis.setex", res,
                          IF res = "ok" THEN Stored(CacheKey(text[p])) ELSE EmptyVec)
       /\ IF res = "ok"
            THEN /\ cache' = RedisSetex(CacheKey(text[p]), CacheTTL, JsonDumps(embedding[p]))
                 /\ EtReturnCached(p, embedding[p])
            ELSE /\ cache' = cache
                 /\ fresh' = fresh
                 /\ IF EmbedTextCatches(res)
                      THEN /\ pc' = [pc EXCEPT ![p] = "et_fallback"]
                           /\ UNCHANGED <<ret, exc>>
                      ELSE EtRaise(p, res)
  /\ UNCHANGED <<indexes, redis_client, ctx, text, embedding, served, req, neo4j_driver, env>>

\* `except RedisError:` resp = embeddings.create(...); return resp.data[0].embedding
\* An exception raised inside an except clause is not caught by its siblings.
EtFallback(p) ==
  /\ pc[p] = "et_fallback"
  /\ \E o \in EmbeddingOutcomes(text[p]) :
       /\ calls' = LogVal(p, "embeddings.create", o[1], o[2])
       /\ IF o[1] = "ok" THEN EtReturn(p, o[2]) ELSE EtRaise(p, o[1])
  /\ UNCHANGED <<indexes, cache, redis_client, ctx, text, embedding, served, req, fresh, neo4j_driver, env>>

\* A cache entry reaches the end of its time-to-live and Redis drops it.
Expire(k) ==
  /\ RedisGet(k) # {}
  /\ cache' = {e \in cache : e.key # k}
  /\ fresh' = [t \in Texts |-> IF CacheKey(t) = k THEN EmptyVec ELSE fresh[t]]
  /\ UNCHANGED <<indexes, pc, redis_client, ctx, text, embedding, ret, exc, calls, served, req, neo4j_driver, env>>


\* ----------------------------------------------------- domains of a request
\* A match of the vector store.
Match(i) == [id |-> i]
RECURSIVE SeqsUpTo(_, _)
SeqsUpTo(S, n) ==
  IF n = 0 THEN {<<>>}
  ELSE LET shorter == SeqsUpTo(S, n - 1) IN
       shorter \cup {Append(s, x) : s \in shorter, x \in S}
Min(a, b) == IF a < b THEN a ELSE b
\* What query(vector, top_k, include_metadata=True) may answer: at most top_k matches.
MatchLists(top_k) == SeqsUpTo({Match(i) : i \in Ids}, Min(MaxMatches, top_k))

\* The rows MATCH (n:Entity {id: nid})-[r]-(m:Entity) finds for node_ids, n of them.
GraphRows(node_ids, n) ==
  [i \in 1..n |-> [source_id |-> node_ids[((i - 1) % Len(node_ids)) + 1],
                   relation |-> "r", target_id |-> i]]
\* How many rows the graph may hold for a request: none, one, the limit, more.
RowCounts == {0, 1, FactLimit, FactLimit + 1}
\* Mutant: the query has no LIMIT clause.
CypherQuery_NoLimit(node_ids, n) == GraphRows(node_ids, n)
\* ... LIMIT 20
CypherQuery(node_ids, n) == SubSeq(GraphRows(node_ids, n), 1, Min(n, FactLimit))

NoInfoSentinel == "No relevant information was found in the knowledge base."
ErrorSentinel == "Error: Could not generate a summary of the search results."
\* What the summarization completion may answer.
SummaryTexts == {"summary s1"}

Turn(role, content) == [role |-> role, content |-> content]
SystemTurn == Turn("system", <<"You are 'VietBot' ...">>)
\* Histories a caller may pass to get_answer (None or [] is the empty one).
Histories == {<<>>, <<Turn("user", <<"h1">>), Turn("assistant", <<"h2">>)>>}

\* delta.content of a streamed chunk: text, or None.
None == "<None>"
ChunkContents == {"x", "y", None}
ChunkLists == SeqsUpTo(ChunkContents, MaxChunks)
\* Mutant: the content is yielded as it is, None included.
OrEmpty_NoDefault(c) == c
\* chunk.choices[0].delta.content or ""
OrEmpty(c) == IF c = None \/ c = "" THEN "" ELSE c

\* Turns a history handed to build_prompt_with_summary is made of.
HistoryTurns ==
  {Turn("user", <<"h1">>), Turn("assistant", <<"h2">>), Turn("user", <<"h3">>)}
\* Summaries _get_search_summary may hand to build_prompt_with_summary.
Summaries == {NoInfoSentinel, ErrorSentinel} \cup SummaryTexts

\* Mutant: the history is appended after the user turn.
build_prompt_with_summary_HistoryLast(user_query, summary, history) ==
  <<SystemTurn, Turn("user", <<"## CONTEXT SUMMARY", summary, "## QUERY", user_query>>)>>
    \o history
\* build_prompt_with_summary(user_query, summary, history)
build_prompt_with_summary(user_query, summary, history) ==
  LET context_str == <<"## CONTEXT SUMMARY", summary>>
      user_content == context_str \o <<"## QUERY", user_query>>
      full_prompt == <<SystemTurn>>
      extended == IF Truthy(history) THEN full_prompt \o history ELSE full_prompt
  IN  Append(extended, Turn("user", user_content))

\* The caller's history list once build_prompt_with_summary has returned:
\* full_prompt is a new list and extend() copies the turns into it.
history_after_build(user_query, summary, history) == history

\* --------------------------------------------------- HybridRAG.get_answer
\* Mutant: get_answer is an ordinary function whose body starts at the call.
GetAnswer_Eager(p, q, h) ==
  /\ Idle(p)
  /\ served[p] < MaxCalls
  /\ served' = [served EXCEPT ![p] = @ + 1]
  /\ req' = [req EXCEPT ![p] = [NoRequest EXCEPT !.query = q, !.history = h, !.history_in = h]]
  /\ ctx' = [ctx EXCEPT ![p] = "pipeline"]
  /\ embedding' = [embedding EXCEPT ![p] = EmptyVec]
  /\ ret' = [ret EXCEPT ![p] = EmptyVec]
  /\ exc' = [exc EXCEPT ![p] = NoException]
  /\ calls' = [calls EXCEPT ![p] = <<>>]
  /\ pc' = [pc EXCEPT ![p] = "pq_call"]
  /\ UNCHANGED <<indexes, cache, redis_client, text, fresh, neo4j_driver, env>>
\* get_answer(query, history) is a generator function: the call builds the
\* generator object and runs none of its body.  In chat_endpoint the call and
\* StreamingResponse(...) are all the try block holds; the response is
\* iterated after the handler has returned it.
GetAnswer(p, q, h) ==
  /\ Idle(p)
  /\ served[p] < MaxCalls
  /\ served' = [served EXCEPT ![p] = @ + 1]
  /\ req' = [req EXCEPT ![p] = [NoRequest EXCEPT !.query = q, !.history = h, !.history_in = h]]
  /\ ctx' = [ctx EXCEPT ![p] = "pipeline"]
  /\ embedding' = [embedding EXCEPT ![p] = EmptyVec]
  /\ ret' = [ret EXCEPT ![p] = EmptyVec]
  /\ exc' = [exc EXCEPT ![p] = NoException]
  /\ calls' = [calls EXCEPT ![p] = <<>>]
  /\ pc' = [pc EXCEPT ![p] = "gen_created"]
  /\ UNCHANGED <<indexes, cache, redis_client, text, fresh, neo4j_driver, env>>

\* The consumer asks for the next fragment: the body runs from where it is
\* suspended (its start, or the last yield) to the next yield, its end or a raise.
Pull(p) ==
  /\ pc[p] \in {"gen_created", "yielded"}
  /\ req' = [req EXCEPT ![p].pulls = @ + 1]
  /\ pc' = [pc EXCEPT ![p] = IF pc[p] = "gen_created" THEN "pq_call" ELSE "stream_next"]
  /\ UNCHANGED <<indexes, cache, redis_client, ctx, text, embedding, ret, exc, calls, served, fresh, neo4j_driver, env>>

\* The consumer drops the generator without exhausting it.
Abandon(p) ==
  /\ pc[p] \in {"gen_created", "yielded"}
  /\ pc' = [pc EXCEPT ![p] = "closed"]
  /\ UNCHANGED <<indexes, cache, redis_client, ctx, text, embedding, ret, exc, calls, served, req, fresh, neo4j_driver, env>>

\* An exception leaves get_answer: nothing in it catches anything.
GaRaise(p, e) ==
  /\ exc' = [exc EXCEPT ![p] = e]
  /\ pc' = [pc EXCEPT ![p] = "raised"]

\* -------------------------------------------------- HybridRAG.pinecone_query
\* The except clause of pinecone_query's try block, which covers embed_text too.
PineconeQueryCatches(e) == e = "PineconeException"

\* matches = self.pinecone_query(query, top_k=5): vec = self.embed_text(query_text)
PqCall(p) ==
  /\ pc[p] = "pq_call"
  /\ text' = [text EXCEPT ![p] = req[p].query]
  /\ pc' = [pc EXCEPT ![p] = "et_start"]
  /\ UNCHANGED <<indexes, cache, redis_client, ctx, embedding, ret, exc, calls, served, req, fresh, neo4j_driver, env>>

\* `if not vec: return []`
PqVec(p) ==
  /\ pc[p] = "pq_vec"
  /\ IF ~Truthy(ret[p])
       THEN /\ req' = [req EXCEPT ![p].matches = <<>>]
            /\ pc' = [pc EXCEPT ![p] = "match_ids"]
       ELSE /\ req' = req
            /\ pc' = [pc EXCEPT ![p] = "pq_query"]
  /\ UNCHANGED <<indexes, cache, redis_client, ctx, text, embedding, ret, exc, calls, served, fresh, neo4j_driver, env>>

\* An exception left embed_text inside pinecone_query's try block.
PqExcept(p) ==
  /\ pc[p] = "pq_except"
  /\ IF PineconeQueryCatches(exc[p])
       THEN /\ req' = [req EXCEPT ![p].matches = <<>>]
            /\ exc' = [exc EXCEPT ![p] = NoException]
            /\ pc' = [pc EXCEPT ![p] = "match_ids"]
       ELSE /\ req' = req
            /\ GaRaise(p, exc[p])
  /\ UNCHANGED <<indexes, cache, redis_client, ctx, text, embedding, ret, calls, served, fresh, neo4j_driver, env>>

\* Mutant: a failed vector query is issued again instead of returning [].
PqQuery_RetryOnError(p) ==
  /\ pc[p] = "pq_query"
  /\ \E o \in {<<"ok", ms>> : ms \in MatchLists(TopK)} \cup {<<"PineconeException", <<>>>>} :
       /\ calls' = Log(p, "pinecone.query", o[1])
       /\ req' = [req EXCEPT ![p].matches = o[2]]
       /\ pc' = [pc EXCEPT ![p] = IF o[1] = "ok" THEN "match_ids" ELSE "pq_query"]
  /\ UNCHANGED <<indexes, cache, redis_client, ctx, text, embedding, ret, exc, served, fresh, neo4j_driver, env>>
\* res = self.pinecone_index.query(vector=vec, top_k=top_k, include_metadata=True)
\* return res["matches"]; `except PineconeException: return []`
PqQuery(p) ==
  /\ pc[p] = "pq_query"
  /\ \E o \in {<<"ok", ms>> : ms \in MatchLists(TopK)} \cup {<<"PineconeException", <<>>>>} :
       /\ calls' = Log(p, "pinecone.query", o[1])
       /\ IF o[1] = "ok"
            THEN /\ req' = [req EXCEPT ![p].matches = o[2]]
                 /\ pc' = [pc EXCEPT ![p] = "match_ids"]
                 /\ exc' = exc
            ELSE IF PineconeQueryCatches(o[1])
                   THEN /\ req' = [req EXCEPT ![p].matches = <<>>]
                        /\ pc' = [pc EXCEPT ![p] = "match_ids"]
                        /\ exc' = exc
                   ELSE /\ req' = req
                        /\ GaRaise(p, o[1])
  /\ UNCHANGED <<indexes, cache, redis_client, ctx, text, embedding, ret, served, fresh, neo4j_driver, env>>

\* Mutant: only the best match is expanded.
MatchIds_FirstOnly(p) ==
  /\ pc[p] = "match_ids"
  /\ req' = [req EXCEPT ![p].match_ids =
               [i \in 1..Min(1, Len(req[p].matches)) |-> req[p].matches[i].id]]
  /\ pc' = [pc EXCEPT ![p] = "fgc_enter"]
  /\ UNCHANGED <<indexes, cache, redis_client, ctx, text, embedding, ret, exc, calls, served, fresh, neo4j_driver, env>>
\* match_ids = [m["id"] for m in matches]
MatchIds(p) ==
  /\ pc[p] = "match_ids"
  /\ req' = [req EXCEPT ![p].match_ids = [i \in 1..Len(req[p].matches) |-> req[p].matches[i].id]]
  /\ pc' = [pc EXCEPT ![p] = "fgc_enter"]
  /\ UNCHANGED <<indexes, cache, redis_client, ctx, text, embedding, ret, exc, calls, served, fresh, neo4j_driver, env>>

\* --------------------------------------------- HybridRAG.fetch_graph_context
\* The except clause of fetch_graph_context's try block.  A Neo4jError is an
\* error the server answers; a database that cannot be reached raises the
\* driver's ServiceUnavailable, which is no Neo4jError.
GraphCatches(e) == e = "Neo4jError"

\* Mutant: the session is opened without `with` and never closed.
CloseSession_Leak(open) == open
\* Leaving `with self.neo4j_driver.session() as session:` closes the session.
CloseSession(open) == open - 1

\* graph_facts = self.fetch_graph_context(match_ids): `if not node_ids: return []`,
\* else `with self.neo4j_driver.session() as session:`
FgcEnter(p) ==
  /\ pc[p] = "fgc_enter"
  /\ IF ~Truthy(req[p].match_ids)
       THEN /\ req' = [req EXCEPT ![p].graph_facts = <<>>,
                                  ![p].expanded = Append(@, req[p].match_ids)]
            /\ pc' = [pc EXCEPT ![p] = "summary"]
       ELSE /\ req' = [req EXCEPT ![p].sessions = @ + 1,
                                  ![p].expanded = Append(@, req[p].match_ids)]
            /\ pc' = [pc EXCEPT ![p] = "fgc_run"]
  /\ UNCHANGED <<indexes, cache, redis_client, ctx, text, embedding, ret, exc, calls, served, fresh, neo4j_driver, env>>

\* result = session.run(cypher_query, node_ids=node_ids); facts = [...]; return facts
\* Leaving the with block closes the session, by return or by exception.
FgcRun(p) ==
  /\ pc[p] = "fgc_run"
  /\ \E o \in {<<"ok", n>> : n \in RowCounts} \cup {<<"Neo4jError", 0>>, <<"ServiceUnavailable", 0>>} :
       /\ calls' = LogVal(p, "neo4j.run", o[1], req[p].match_ids)
       /\ IF o[1] = "ok"
            THEN /\ req' = [req EXCEPT ![p].graph_facts = CypherQuery(req[p].match_ids, o[2]),
                                       ![p].sessions = CloseSession(@)]
                 /\ pc' = [pc EXCEPT ![p] = "summary"]
                 /\ exc' = exc
            ELSE IF GraphCatches(o[1])
                   THEN /\ req' = [req EXCEPT ![p].graph_facts = <<>>, ![p].sessions = CloseSession(@)]
                        /\ pc' = [pc EXCEPT ![p] = "summary"]
                        /\ exc' = exc
                   ELSE /\ req' = [req EXCEPT ![p].sessions = CloseSession(@)]
                        /\ GaRaise(p, o[1])
  /\ UNCHANGED <<indexes, cache, redis_client, ctx, text, embedding, ret, served, fresh, neo4j_driver, env>>

\* --------------------------------------------- HybridRAG._get_search_summary
\* Mutant: the try block has no except clause.
SummaryCatches_Nothing(e) == FALSE
\* The except clause of _get_search_summary's try block.
SummaryCatches(e) == e = "APIError"

\* Mutant: only the graph facts are looked at.
NothingFound_FactsOnly(pinecone_matches, graph_facts) == ~Truthy(graph_facts)
\* `if not pinecone_matches and not graph_facts:`
NothingFound(pinecone_matches, graph_facts) ==
  ~Truthy(pinecone_matches) /\ ~Truthy(graph_facts)

\* summary = self._get_search_summary(query, matches, graph_facts)
Summarize(p) ==
  /\ pc[p] = "summary"
  /\ IF NothingFound(req[p].matches, req[p].graph_facts)
       THEN /\ req' = [req EXCEPT ![p].summary = NoInfoSentinel]
            /\ pc' = [pc EXCEPT ![p] = "compose"]
            /\ UNCHANGED <<calls, exc>>
       ELSE \E o \in {<<"ok", s>> : s \in SummaryTexts} \cup {<<"APIError", "">>} :
            /\ calls' = Log(p, "chat.completions.create", o[1])
            /\ IF o[1] = "ok"
                 THEN /\ req' = [req EXCEPT ![p].summary = o[2]]
                      /\ pc' = [pc EXCEPT ![p] = "compose"]
                      /\ exc' = exc
                 ELSE IF SummaryCatches(o[1])
                        THEN /\ req' = [req EXCEPT ![p].summary = ErrorSentinel]
                             /\ pc' = [pc EXCEPT ![p] = "compose"]
                             /\ exc' = exc
                        ELSE /\ req' = req
                             /\ GaRaise(p, o[1])
  /\ UNCHANGED <<indexes, cache, redis_client, ctx, text, embedding, ret, served, fresh, neo4j_driver, env>>

\* prompt_messages = self.build_prompt_with_summary(query, summary, history)
Compose(p) ==
  /\ pc[p] = "compose"
  /\ req' = [req EXCEPT ![p].prompt =
               build_prompt_with_summary(req[p].query, req[p].summary, req[p].history),
                         ![p].history =
               history_after_build(req[p].query, req[p].summary, req[p].history)]
  /\ pc' = [pc EXCEPT ![p] = "stream_create"]
  /\ UNCHANGED <<indexes, cache, redis_client, ctx, text, embedding, ret, exc, calls, served, fresh, neo4j_driver, env>>

\* A caller invokes build_prompt_with_summary(q, s, h) on a constructed worker.
BuildPrompt(p, q, s, h) ==
  /\ Idle(p)
  /\ served[p] < MaxCalls
  /\ served' = [served EXCEPT ![p] = @ + 1]
  /\ ctx' = [ctx EXCEPT ![p] = "direct"]
  /\ req' = [req EXCEPT ![p] =
               [NoRequest EXCEPT !.query = q, !.summary = s, !.history_in = h,
                                 !.history = history_after_build(q, s, h),
                                 !.prompt = build_prompt_with_summary(q, s, h)]]
  /\ embedding' = [embedding EXCEPT ![p] = EmptyVec]
  /\ ret' = [ret EXCEPT ![p] = EmptyVec]
  /\ exc' = [exc EXCEPT ![p] = NoException]
  /\ calls' = [calls EXCEPT ![p] = <<>>]
  /\ pc' = [pc EXCEPT ![p] = "returned"]
  /\ UNCHANGED <<indexes, cache, redis_client, text, fresh, neo4j_driver, env>>

\* stream = self.openai_client.chat.completions.create(..., stream=True)
\* (in no try block)
StreamCreate(p) ==
  /\ pc[p] = "stream_create"
  /\ \E o \in {<<"ok", cs>> : cs \in ChunkLists} \cup {<<"APIError", <<>>>>} :
       /\ calls' = LogVal(p, "chat.completions.create(stream)", o[1], o[2])
       /\ IF o[1] = "ok"
            THEN /\ req' = [req EXCEPT ![p].stream = o[2]]
                 /\ pc' = [pc EXCEPT ![p] = "stream_next"]
                 /\ exc' = exc
            ELSE /\ req' = req
                 /\ GaRaise(p, o[1])
  /\ UNCHANGED <<indexes, cache, redis_client, ctx, text, embedding, ret, served, fresh, neo4j_driver, env>>

\* Mutant: the loop reads one chunk ahead of the one it yields.
StreamNext_ReadAhead(p) ==
  /\ pc[p] = "stream_next"
  /\ IF req[p].stream = <<>>
       THEN /\ req' = req
            /\ pc' = [pc EXCEPT ![p] = "exhausted"]
       ELSE /\ req' = [req EXCEPT ![p].out = Append(@, OrEmpty(Head(req[p].stream))),
                                  ![p].stream = IF Len(@) > 1 THEN Tail(Tail(@)) ELSE Tail(@)]
            /\ pc' = [pc EXCEPT ![p] = "yielded"]
  /\ UNCHANGED <<indexes, cache, redis_client, ctx, text, embedding, ret, exc, calls, served, fresh, neo4j_driver, env>>
\* for chunk in stream: content = chunk.choices[0].delta.content or ""; yield content
StreamNext(p) ==
  /\ pc[p] = "stream_next"
  /\ IF req[p].stream = <<>>
       THEN /\ req' = req
            /\ pc' = [pc EXCEPT ![p] = "exhausted"]
       ELSE /\ req' = [req EXCEPT ![p].out = Append(@, OrEmpty(Head(req[p].stream))),
                                  ![p].stream = Tail(@)]
            /\ pc' = [pc EXCEPT ![p] = "yielded"]
  /\ UNCHANGED <<indexes, cache, redis_client, ctx, text, embedding, ret, exc, calls, served, fresh, neo4j_driver, env>>

ConstructStep(p) ==
  \/ Construct(p)
  \/ EnsureList(p)
  \/ EnsureCreate(p)
  \/ Neo4jVerify(p)
  \/ RedisPing(p)

EmbedTextStep(p) ==
  \/ EtStart(p)
  \/ EtDirect(p)
  \/ EtGet(p)
  \/ EtApi(p)
  \/ EtSetex(p)
  \/ EtFallback(p)

\* Two workers start and resolve embeddings concurrently, sharing Pinecone and Redis.
NextConc ==
  \/ \E p \in Workers : ConstructStep(p)
  \/ \E p \in Workers : \E t \in Texts : EmbedText(p, t)
  \/ \E p \in Workers : EmbedTextStep(p)
  \/ \E t \in Texts : Expire(CacheKey(t))

SpecConc == Init /\ [][NextConc]_vars

PipelineStep(p) ==
  \/ PqCall(p)
  \/ PqVec(p)
  \/ PqExcept(p)
  \/ PqQuery(p)
  \/ MatchIds(p)
  \/ FgcEnter(p)
  \/ FgcRun(p)
  \/ Summarize(p)
  \/ Compose(p)
  \/ StreamCreate(p)
  \/ StreamNext(p)

\* The worker that serves requests in Spec.
Server == "w1"

\* One worker starts and serves get_answer requests one after the other.
Next ==
  \/ ConstructStep(Server)
  \/ \E q \in Texts : \E h \in Histories : GetAnswer(Server, q, h)
  \/ Pull(Server)
  \/ Abandon(Server)
  \/ PipelineStep(Server)
  \/ EmbedTextStep(Server)
  \/ \E t \in Texts : Expire(CacheKey(t))

Spec == Init /\ [][Next]_vars

\* One worker starts and builds prompts for callers.
NextCompose ==
  \/ ConstructStep(Server)
  \/ \E q \in Texts : \E s \in Summaries : \E h \in SeqsUpTo(HistoryTurns, MaxHistory) :
       BuildPrompt(Server, q, s, h)

SpecCompose == Init /\ [][NextCompose]_vars

\* The process the interactive loop of hybrid_chat.main() runs in.
Cli == "w2"

\* Two processes start, the HTTP application and the interactive loop, and shut down.
NextLifecycle ==
  \/ \E p \in Workers : ConstructStep(p)
  \/ ShutdownEvent(Server)
  \/ MainExit(Cli)

SpecLifecycle == InitStartup /\ [][NextLifecycle]_vars

\* ------------------------------------------------------------ observations
Last(s) == s[Len(s)]
\* The calls of worker p's running call to the services in svcs that failed.
Failed(p, svcs) ==
  {i \in 1..Len(calls[p]) : calls[p][i].svc \in svcs /\ calls[p][i].res # "ok"}
EmbedErrored(p) == Failed(p, {"embeddings.create"}) # {}
CacheErrored(p) == Failed(p, {"redis.get", "redis.setex"}) # {}
\* The last call of worker p's running call failed and went to one of svcs.
LastFailedIn(p, svcs) ==
  /\ calls[p] # <<>>
  /\ Last(calls[p]).svc \in svcs
  /\ Last(calls[p]).res # "ok"
\* The vector the embedding service answered last in worker p's running call.
LastEmbedding(p) ==
  LET is == {i \in 1..Len(calls[p]) : calls[p][i].svc = "embeddings.create"} IN
  IF is = {} THEN EmptyVec
  ELSE calls[p][CHOOSE i \in is : \A j \in is : j <= i].val

\* embed_text has returned to its caller / has let an exception out.
EtReturned(p) == (ctx[p] = "direct" /\ pc[p] = "returned") \/ pc[p] = "pq_vec"
EtRaised(p) == (ctx[p] = "direct" /\ pc[p] = "raised") \/ pc[p] = "pq_except"

StreamSvc == "chat.completions.create(stream)"
EmbedSvcs == {"redis.get", "redis.setex", "embeddings.create"}
\* The stage of get_answer an external call belongs to.
StageOf(svc) ==
  CASE svc \in EmbedSvcs -> 1
    [] svc = "pinecone.query" -> 2
    [] svc = "neo4j.run" -> 3
    [] svc = "chat.completions.create" -> 4
    [] svc = StreamSvc -> 6
    [] OTHER -> 0
InStageOrder(s) == \A i, j \in 1..Len(s) : i < j => StageOf(s[i].svc) <= StageOf(s[j].svc)
GenerateAttempted(p) == Count(calls[p], StreamSvc) = 1

\* ------------------------------------------------------------------ claims

\* C1.  In every state of the cache (connected, failing on read, failing on
\* write, absent), whenever the embedding service errored during embed_text,
\* embed_text returns the empty vector and no exception leaves it.
C1_EmbedFailureReturnsEmpty ==
  \A p \in Workers :
    ((EtReturned(p) \/ EtRaised(p)) /\ EmbedErrored(p))
      => (EtReturned(p) /\ ret[p] = EmptyVec /\ exc[p] = NoException)

\* C2.  The external calls of a request follow the order Embed, VectorSearch,
\* GraphExpand, Summarize, (ComposePrompt,) Generate, and no request ends
\* before stream initiation was attempted: a request that raised raised there.
C2_StagesInOrderNeverAborted ==
  \A p \in Workers :
    ctx[p] = "pipeline" =>
      /\ InStageOrder(calls[p])
      /\ (pc[p] = "stream_create" => req[p].prompt # <<>>)
      /\ (pc[p] = "raised" => GenerateAttempted(p))

\* C3.  When stream initiation fails, the request's in-band output is exactly
\* one (apology) fragment and no exception crosses the pipeline boundary.
C3_StreamInitFailureApology ==
  \A p \in Workers :
    (ctx[p] = "pipeline" /\ LastFailedIn(p, {StreamSvc}))
      => (pc[p] # "raised" /\ exc[p] = NoException /\ Len(req[p].out) = 1)

\* C4.  No exception leaves pinecone_query, whether raised by the vector store
\* or while obtaining the query vector, and after any such error it returns [].
C4_SearchFailsOpen ==
  \A p \in Workers :
    ctx[p] = "pipeline" =>
      /\ ~(pc[p] = "raised" /\ LastFailedIn(p, EmbedSvcs \cup {"pinecone.query"}))
      /\ ((pc[p] = "match_ids" /\ LastFailedIn(p, {"embeddings.create", "pinecone.query"}))
            => req[p].matches = <<>>)

\* C5.  No exception leaves fetch_graph_context for a non-empty id list,
\* whether the query failed or the database could not be reached, and after
\* any such error it returns [].
C5_ExpandFailsOpen ==
  \A p \in Workers :
    ctx[p] = "pipeline" =>
      /\ ~(pc[p] = "raised" /\ LastFailedIn(p, {"neo4j.run"}))
      /\ ((pc[p] = "summary" /\ LastFailedIn(p, {"neo4j.run"})) => req[p].graph_facts = <<>>)

\* C6.  Scenario B: once the embedding service failed for a request, embed_text
\* returned the empty vector, the vector store and the graph are never called,
\* fetch_graph_context is never invoked, the summary is the no-information
\* sentinel with no summary completion, and the request goes on to stream
\* initiation (the prompt built before it).
C6_ScenarioB ==
  \A p \in Workers :
    (ctx[p] = "pipeline" /\ EmbedErrored(p)) =>
      /\ ~EtRaised(p) /\ ret[p] = EmptyVec
      /\ Count(calls[p], "pinecone.query") = 0
      /\ req[p].expanded = <<>> /\ Count(calls[p], "neo4j.run") = 0
      /\ Count(calls[p], "chat.completions.create") = 0
      /\ (pc[p] \in {"compose", "stream_create"} => req[p].summary = NoInfoSentinel)
      /\ (pc[p] = "stream_create" => req[p].prompt # <<>>)
      /\ (pc[p] = "raised" => GenerateAttempted(p))

\* C7.  Whenever the cache is unavailable during a call of embed_text (no client
\* since startup, or a cache read or write that failed) and every embedding
\* request of the call succeeded, embed_text returns exactly the vector the
\* embedding service answered for the text, and no exception leaves it.
CacheUnavailable(p) == redis_client[p] = "None" \/ CacheErrored(p)
C7_CacheDownFallsBack ==
  \A p \in Workers :
    ((EtReturned(p) \/ EtRaised(p)) /\ CacheUnavailable(p) /\ ~EmbedErrored(p))
      => /\ EtReturned(p)
         /\ exc[p] = NoException
         /\ Count(calls[p], "embeddings.create") >= 1
         /\ ret[p] = LastEmbedding(p)
         /\ ret[p] \in {Emb(text[p], n) : n \in 1..MaxVer}
\* embed_text has returned after a cache write that failed.
C7_Witness ==
  \E p \in Workers :
    /\ EtReturned(p)
    /\ Failed(p, {"redis.setex"}) # {}
    /\ ret[p] # EmptyVec

\* C8.  Once embed_text(t) has returned a vector through the cache and the
\* entry's TTL has not expired, the next embed_text(t) that reads the cache
\* returns the identical vector with no embedding request; the call that
\* stored the entry made exactly one.
C8_SecondResolveHitsCache ==
  [][\A p \in Workers :
       /\ (/\ pc[p] = "et_get" /\ pc'[p] # "et_get"
           /\ fresh[text[p]] # EmptyVec
           /\ Last(calls'[p]).res = "ok")
            => /\ pc'[p] \in {"returned", "pq_vec"}
               /\ ret'[p] = fresh[text[p]]
               /\ Count(calls'[p], "embeddings.create") = 0
       /\ (/\ pc[p] = "et_setex" /\ pc'[p] # "et_setex"
           /\ Last(calls'[p]).res = "ok")
            => /\ Count(calls'[p], "embeddings.create") = 1
               /\ fresh'[text[p]] = ret'[p]]_vars
\* A second embed_text(t) has returned from the cache read alone.
C8_Witness ==
  \E p \in Workers :
    /\ EtReturned(p)
    /\ Len(calls[p]) = 1
    /\ calls[p][1] = Call("redis.get", "ok", <<>>)
    /\ ret[p] \in Vectors

\* C9.  On a miss with the cache reachable and the embedding request
\* succeeding, embed_text stores the vector it returns under the text's key
\* with a TTL of 86400 s in the step that returns it, and never returns
\* without attempting the store; a call in which an embedding request failed
\* writes no entry.
C9_MissStoresWithTtl ==
  [][\A p \in Workers :
       /\ (pc[p] = "et_api" /\ pc'[p] # "et_api" /\ Last(calls'[p]).res = "ok")
            => pc'[p] = "et_setex"
       /\ (pc[p] = "et_setex" /\ pc'[p] # "et_setex" /\ Last(calls'[p]).res = "ok")
            => /\ pc'[p] \in {"returned", "pq_vec"}
               /\ ret'[p] = LastEmbedding(p)
               /\ RedisGet(CacheKey(text[p]))' =
                    {[key |-> CacheKey(text[p]), value |-> JsonDumps(ret'[p]), ttl |-> 86400]}
       /\ (Failed(p, {"embeddings.create"})' # {})
            => /\ Count(calls'[p], "redis.setex") = Cardinality(Failed(p, {"redis.setex"})')
               /\ (calls'[p] # calls[p] => cache' = cache)]_vars
\* embed_text has just stored its vector and returned it.
C9_Witness ==
  \E p \in Workers :
    /\ EtReturned(p)
    /\ Last(calls[p]) = Call("redis.setex", "ok", <<>>)
    /\ [key |-> CacheKey(text[p]), value |-> JsonDumps(ret[p]), ttl |-> CacheTTL] \in cache

\* C10.  Ensuring the index is safe under races: no construction fails because
\* the index it set out to create exists by then, the index exists at most
\* once, and create_index is called only by a construction that found the
\* index absent.
C10_EnsureIndexRaceSafe ==
  /\ \A p \in Workers : ~(pc[p] = "init_failed" /\ exc[p] = "AlreadyExists")
  /\ Cardinality({i \in indexes : i.name = IndexName}) <= 1
  /\ \A p \in Workers :
       Count(calls[p], "pinecone.create_index") > 0
         => calls[p][1] = Call("pinecone.list_indexes", "ok", <<>>)

\* fetch_graph_context has been called and has returned or raised.
FgcDone(p) == Len(req[p].expanded) = 1 /\ pc[p] # "fgc_run"

\* C11.  One call of fetch_graph_context issues no graph query when its id
\* list is empty (and returns []), exactly one otherwise; that query's
\* parameter is the whole id list; its result holds at most 20 facts.
C11_OneBatchedQuery ==
  \A p \in Workers :
    ctx[p] = "pipeline" =>
      /\ Len(req[p].graph_facts) <= 20
      /\ Count(calls[p], "neo4j.run") <= 1
      /\ \A i \in 1..Len(calls[p]) :
           calls[p][i].svc = "neo4j.run" =>
             (Len(req[p].expanded) = 1 /\ calls[p][i].val = req[p].expanded[1])
      /\ FgcDone(p) =>
           IF req[p].expanded[1] = <<>>
             THEN Count(calls[p], "neo4j.run") = 0 /\ req[p].graph_facts = <<>>
             ELSE Count(calls[p], "neo4j.run") = 1
\* A query for two ids has answered as many facts as the limit lets through.
C11_Witness ==
  \E p \in Workers :
    /\ FgcDone(p)
    /\ Len(req[p].expanded[1]) = 2
    /\ Len(req[p].graph_facts) = 20
    /\ calls[p][Len(calls[p])] = Call("neo4j.run", "ok", req[p].expanded[1])

\* C12.  A graph session is open only while fetch_graph_context runs its one
\* query: it is acquired once for a non-empty id list and closed when the call
\* returns or raises, whether the query succeeded or failed.
C12_SessionReleased ==
  \A p \in Workers :
    /\ req[p].sessions = (IF pc[p] = "fgc_run" THEN 1 ELSE 0)
    /\ (pc[p] = "fgc_run" => Count(calls[p], "neo4j.run") = 0)
    /\ (FgcDone(p) /\ ctx[p] = "pipeline")
         => Count(calls[p], "neo4j.run") = (IF req[p].expanded[1] = <<>> THEN 0 ELSE 1)
\* fetch_graph_context has raised out of its with block.
C12_Witness ==
  \E p \in Workers :
    /\ pc[p] = "raised"
    /\ LastFailedIn(p, {"neo4j.run"})
    /\ req[p].sessions = 0

\* The external calls of the stages of get_answer.
StageSvcs ==
  {"embeddings.create", "pinecone.query", "neo4j.run", "chat.completions.create", StreamSvc}
\* The positions of the calls to svc in worker p's running call.
CallsTo(p, svc) == {i \in 1..Len(calls[p]) : calls[p][i].svc = svc}

\* C13.  Within one request, whatever fails, each external call of a stage
\* (embedding request, vector query, graph query, summary completion, stream
\* initiation) is issued at most once.
C13_EachCallAtMostOnce ==
  \A p \in Workers :
    ctx[p] = "pipeline" => \A svc \in StageSvcs : Count(calls[p], svc) <= 1
\* C13, amended.  Within one request no call that failed is issued again, and
\* every external call is issued at most once, except the embedding request,
\* which is issued a second time exactly when the first one succeeded and the
\* cache write that followed it failed.
C13_NoFailedCallReissued ==
  \A p \in Workers :
    ctx[p] = "pipeline" =>
      /\ \A svc \in (StageSvcs \cup EmbedSvcs) \ {"embeddings.create"} :
           Count(calls[p], svc) <= 1
      /\ Count(calls[p], "embeddings.create") <= 2
      /\ \A i, j \in 1..Len(calls[p]) :
           (i < j /\ calls[p][i].svc = calls[p][j].svc) => calls[p][i].res = "ok"
      /\ Count(calls[p], "embeddings.create") = 2 =>
           \E i, j \in CallsTo(p, "embeddings.create"), k \in CallsTo(p, "redis.setex") :
             /\ i < k /\ k < j
             /\ calls[p][i].res = "ok"
             /\ calls[p][k].res = "RedisError"
\* A request that asked for its embedding twice has gone on to generation.
C13_Witness ==
  \E p \in Workers :
    /\ ctx[p] = "pipeline"
    /\ Count(calls[p], "embeddings.create") = 2
    /\ GenerateAttempted(p)

\* C14.  fetch_graph_context is called once per request, with the ids of the
\* matches pinecone_query returned: as many, the same ones, in the same order,
\* duplicates kept.
C14_ExpandGetsMatchIdsInOrder ==
  \A p \in Workers :
    /\ Len(req[p].expanded) <= 1
    /\ Len(req[p].expanded) = 1 =>
         /\ Len(req[p].expanded[1]) = Len(req[p].matches)
         /\ \A i \in 1..Len(req[p].matches) :
              req[p].expanded[1][i] = req[p].matches[i].id
\* Two matches, ranked "b" before "a", have been handed on.
C14_Witness ==
  \E p \in Workers :
    /\ req[p].matches = <<Match("b"), Match("a")>>
    /\ req[p].expanded = << <<"b", "a">> >>

\* _get_search_summary has returned in worker p's request.
SummaryReturned(p) ==
  /\ ctx[p] = "pipeline"
  /\ \/ pc[p] \in {"compose", "stream_create", "stream_next", "yielded", "exhausted"}
     \/ pc[p] = "closed" /\ req[p].pulls > 0
     \/ pc[p] = "raised" /\ LastFailedIn(p, {StreamSvc})

\* C15.  With no matches and no graph facts _get_search_summary issues no
\* completion and returns the no-information sentence; with matches or facts
\* it issues exactly one summary completion.
C15_SummaryCallOnlyWithContext ==
  \A p \in Workers :
    /\ ctx[p] = "pipeline" => Count(calls[p], "chat.completions.create") <= 1
    /\ SummaryReturned(p) =>
         IF req[p].matches = <<>> /\ req[p].graph_facts = <<>>
           THEN /\ Count(calls[p], "chat.completions.create") = 0
                /\ req[p].summary =
                     "No relevant information was found in the knowledge base."
           ELSE Count(calls[p], "chat.completions.create") = 1
\* Matches without graph facts have been summarized by one completion.
C15_Witness ==
  \E p \in Workers :
    /\ SummaryReturned(p)
    /\ req[p].matches # <<>>
    /\ req[p].graph_facts = <<>>
    /\ Count(calls[p], "chat.completions.create") = 1

\* C16.  When the summary completion errors, _get_search_summary raises
\* nothing and returns the error sentence, and the prompt is built with that
\* sentence as its summary.
C16_SummaryFailureYieldsSentinel ==
  \A p \in Workers :
    (ctx[p] = "pipeline" /\ Failed(p, {"chat.completions.create"}) # {}) =>
      /\ SummaryReturned(p)
      /\ req[p].summary = "Error: Could not generate a summary of the search results."
      /\ req[p].prompt # <<>> =>
           Last(req[p].prompt).content =
             <<"## CONTEXT SUMMARY",
               "Error: Could not generate a summary of the search results.",
               "## QUERY", req[p].query>>
\* The stream has been asked for with a prompt built around the error sentence.
C16_Witness ==
  \E p \in Workers :
    /\ ctx[p] = "pipeline"
    /\ Failed(p, {"chat.completions.create"}) # {}
    /\ req[p].prompt # <<>>
    /\ GenerateAttempted(p)

\* C17.  build_prompt_with_summary(q, s, h) returns len(h) + 2 turns: the
\* system turn first, then the turns of h in their order, then a user turn
\* whose content holds both s and q; the list h is as it was handed in.
C17_PromptLayout ==
  \A p \in Workers :
    req[p].prompt # <<>> =>
      LET prompt == req[p].prompt
          h == req[p].history_in
          content == Last(prompt).content
      IN  /\ Len(prompt) = Len(h) + 2
          /\ prompt[1].role = "system"
          /\ \A i \in 1..Len(h) : prompt[i + 1] = h[i]
          /\ Last(prompt).role = "user"
          /\ \E i, j \in 1..Len(content) :
               content[i] = req[p].summary /\ content[j] = req[p].query
          /\ req[p].history = h
\* A prompt has been built around a history of two turns.
C17_Witness ==
  \E p \in Workers :
    /\ Len(req[p].history_in) = 2
    /\ Len(req[p].prompt) = 4
    /\ req[p].prompt[2] # req[p].prompt[3]

\* The stream of worker p's request has been opened.
StreamOpened(p) ==
  /\ ctx[p] = "pipeline"
  /\ calls[p] # <<>>
  /\ Last(calls[p]).svc = StreamSvc
  /\ Last(calls[p]).res = "ok"
\* The chunks the service emits on the stream of worker p's request.
Emitted(p) == Last(calls[p]).val
\* How many of them have been taken from the stream.
Taken(p) == Len(Emitted(p)) - Len(req[p].stream)
\* The text of a chunk of the service (None carries none) and of a yielded fragment.
ChunkText(c) == IF c = None THEN <<>> ELSE <<c>>
FragmentText(f) == IF f = "" THEN <<>> ELSE <<f>>
RECURSIVE AnswerText(_)
AnswerText(chunks) ==
  IF chunks = <<>> THEN <<>> ELSE ChunkText(Head(chunks)) \o AnswerText(Tail(chunks))
RECURSIVE Joined(_)
Joined(fragments) ==
  IF fragments = <<>> THEN <<>> ELSE FragmentText(Head(fragments)) \o Joined(Tail(fragments))

\* C18.  The fragments get_answer yields carry, one for one and in order, the
\* text of the chunks the service emitted; once the stream is exhausted their
\* concatenation is the whole answer text.
C18_FragmentsAreTheAnswer ==
  \A p \in Workers :
    StreamOpened(p) =>
      /\ Len(req[p].out) <= Len(Emitted(p))
      /\ \A i \in 1..Len(req[p].out) :
           FragmentText(req[p].out[i]) = ChunkText(Emitted(p)[i])
      /\ pc[p] = "exhausted" => Joined(req[p].out) = AnswerText(Emitted(p))
\* A stream of two chunks of different text has been exhausted.
C18_Witness ==
  \E p \in Workers :
    /\ StreamOpened(p)
    /\ pc[p] = "exhausted"
    /\ Emitted(p) = <<"y", "x">>
    /\ req[p].out = <<"y", "x">>

\* C19.  At every point the chunks taken from the stream are as many as the
\* fragments yielded and no more than the caller's requests; once the caller
\* has dropped the generator nothing of the request moves any more.
C19_PullBased ==
  /\ [](\A p \in Workers :
          /\ Len(req[p].out) <= req[p].pulls
          /\ StreamOpened(p) => (Taken(p) = Len(req[p].out) /\ Taken(p) <= req[p].pulls))
  /\ [][\A p \in Workers :
          pc[p] = "closed" =>
            \/ pc'[p] = "closed" /\ req'[p] = req[p] /\ calls'[p] = calls[p]
            \/ pc'[p] = "gen_created"]_vars
\* The generator was dropped after one fragment, a chunk still on the stream.
C19_Witness ==
  \E p \in Workers :
    /\ StreamOpened(p)
    /\ pc[p] = "closed"
    /\ req[p].pulls = 1
    /\ Taken(p) = 1
    /\ req[p].stream # <<>>

\* Worker p's call of embed_text missed the cache, got a vector from the
\* service, stored it and returned.
MissedAndStored(p) ==
  /\ ctx[p] = "direct"
  /\ pc[p] = "returned"
  /\ Len(calls[p]) = 3
  /\ calls[p][1] = Call("redis.get", "ok", EmptyVec)
  /\ calls[p][2].svc = "embeddings.create" /\ calls[p][2].res = "ok"
  /\ calls[p][3].svc = "redis.setex" /\ calls[p][3].res = "ok"

\* C20.  When two calls of embed_text for one text both miss and both store,
\* each returns the vector the service answered to it for that text, and the
\* cache then holds one entry under the text's key, whose value is the vector
\* one of the two returned.
C20_ConcurrentMissesOverwrite ==
  \A p, q \in Workers :
    (/\ p # q
     /\ MissedAndStored(p) /\ MissedAndStored(q)
     /\ text[p] = text[q]
     /\ RedisGet(CacheKey(text[p])) # {}) =>
      /\ ret[p] = calls[p][2].val /\ ret[p] \in {Emb(text[p], n) : n \in 1..MaxVer}
      /\ ret[q] = calls[q][2].val /\ ret[q] \in {Emb(text[q], n) : n \in 1..MaxVer}
      /\ Cardinality(RedisGet(CacheKey(text[p]))) = 1
      /\ \A e \in RedisGet(CacheKey(text[p])) :
           /\ e.value \in {JsonDumps(ret[p]), JsonDumps(ret[q])}
           /\ e.ttl = 86400
\* Both workers' first calls missed; the second to write replaced the entry of
\* the first with a different vector of the same text.
C20_Witness ==
  \E p, q \in Workers :
    /\ p # q
    /\ served[p] = 1 /\ served[q] = 1
    /\ MissedAndStored(p) /\ MissedAndStored(q)
    /\ text[p] = text[q]
    /\ ret[p] # ret[q]
    /\ calls[p][3].val = EmptyVec
    /\ calls[q][3].val = ret[p]
    /\ RedisGet(CacheKey(text[q])) =
         {[key |-> CacheKey(text[q]), value |-> JsonDumps(ret[q]), ttl |-> 86400]}

\* The index exists with a dimension other than the configured one.
DimensionMismatch ==
  \E i \in indexes : i.name = IndexName /\ i.dimension # VectorDim
\* Worker p has not finished constructing its HybridRAG, or has failed to.
NotServing(p) ==
  pc[p] \in {"new", "ensure_list", "ensure_create", "neo4j_verify", "redis_ping", "init_failed"}

\* C21.  With a required credential missing, or with the index existing in
\* another dimension than the configured one, construction fails and the
\* process never serves; a failed Redis ping alone never fails construction.
C21_ConfigErrorFatal ==
  \A p \in Workers :
    /\ (env = "missing" \/ DimensionMismatch) => NotServing(p)
    /\ pc[p] = "init_failed" => ~LastFailedIn(p, {"redis.ping"})

\* C22.  Once the shutdown step has run (the HTTP shutdown event, or leaving
\* the interactive loop), the Neo4j driver is closed and no error was raised.
C22_ShutdownClosesDriver ==
  \A p \in Workers :
    pc[p] \in {"shut_down", "shutdown_raised", "main_ended"} =>
      /\ neo4j_driver[p] = "closed"
      /\ exc[p] = NoException

\* Worker p's call of embed_text was answered from the cache.
HitReturned(p) ==
  /\ ctx[p] = "direct"
  /\ pc[p] = "returned"
  /\ calls[p] = <<Call("redis.get", "ok", EmptyVec)>>

\* C23.  Every cache entry lies under the key of some text and holds a vector
\* of the embedding service for that very text, never the empty vector; the
\* keys of different texts differ; a call answered from the cache returns a
\* vector of its own text.
C23_EntriesBelongToTheirText ==
  /\ \A t1, t2 \in Texts : t1 # t2 => CacheKey(t1) # CacheKey(t2)
  /\ \A e \in cache :
       /\ \E t \in Texts : e.key = CacheKey(t)
       /\ \A t \in Texts :
            e.key = CacheKey(t) => JsonLoads(e.value) \in {Emb(t, n) : n \in 1..MaxVer}
  /\ \A p \in Workers :
       HitReturned(p) => ret[p] \in {Emb(text[p], n) : n \in 1..MaxVer}
\* Both texts are cached and a call for one of them was answered from the cache.
C23_Witness ==
  /\ \A t \in Texts : RedisGet(CacheKey(t)) # {}
  /\ \E p \in Workers : HitReturned(p) /\ text[p] = "t2"

\* chat_endpoint's try block is still running for worker p's request: the
\* generator has been built and the response's iteration has asked for nothing.
InEndpointTry(p) == ctx[p] = "pipeline" /\ req[p].pulls = 0

\* C24.  Until the first fragment is requested, get_answer has run no stage
\* and made no external call; an exception of a stage therefore leaves
\* get_answer only after the first request, never inside chat_endpoint's try.
C24_NothingRunsBeforeFirstPull ==
  \A p \in Workers :
    /\ InEndpointTry(p) =>
         /\ pc[p] \in {"gen_created", "closed"}
         /\ calls[p] = <<>>
         /\ exc[p] = NoException
         /\ req[p] = [NoRequest EXCEPT !.query = req[p].query,
                                       !.history = req[p].history,
                                       !.history_in = req[p].history_in]
    /\ (ctx[p] = "pipeline" /\ pc[p] = "raised") =>
         (req[p].pulls >= 1 /\ exc[p] # NoException)
\* A failed graph query has surfaced at the first request of a fragment.
C24_Witness ==
  \E p \in Workers :
    /\ ctx[p] = "pipeline"
    /\ pc[p] = "raised"
    /\ req[p].pulls = 1
    /\ LastFailedIn(p, {"neo4j.run"})

====
